---- MODULE Spec2Model ----
(***************************************************************************)
(* Model of the author website's browser-side timeline re-sorter           *)
(* (sortUsingNestedText / sortwc / sortdate / sortcolor), of its           *)
(* build-verification scripts (SEO, accessibility, generator checks) and   *)
(* of its Playwright visual-regression tests.                              *)
(*                                                                         *)
(* Strings that the code compares or parses are sequences of character     *)
(* codes, so that JavaScript's relational comparison and parseInt are      *)
(* computed, not assumed.                                                  *)
(***************************************************************************)
EXTENDS Integers, Sequences, FiniteSets, TLC

VARIABLES
    timeline,   \* the li children of #timeline, in document order
    css,        \* inline styles set through jQuery .css / .removeAttr
    calls,      \* the sort functions invoked so far, oldest first
    prev,       \* the li children as they were before the last invocation
    rendered,   \* the li children as the page was rendered
    present,    \* the page's list carries the id timeline
    checked,    \* the radio input of the sort group that is checked
    levels,     \* the console levels the page's script has logged at
    thrown,     \* a sort function has thrown
    script,     \* the verification script this node process runs
    files,      \* the files that exist under the project root
    pc,         \* the statement the script is at
    idx,        \* the index of the file or page under test
    hasErrors,  \* the script's hasErrors
    hasWarnings,\* the script's hasWarnings
    errorLogged,\* console.error has been called
    warnLogged, \* console.warn has been called
    exitCode,   \* the code given to process.exit, -1 while running
    page,       \* how the generator page under test writes each element id
    allFound,   \* every item a generator check looked for so far was there
    hardFound,  \* some check so far found a hard failure
    finding,    \* what the check that ran last saw and concluded
    test,       \* the Playwright test: its describe group, page and project
    siteBuilt,  \* the _site directory exists
    step,       \* the statement the test is at
    doc,        \* the ids of the elements of the browser page's document
    loaded,     \* the document as it was when the network went idle
    shot,       \* the document as the screenshot shows it
    trace,      \* the browser operations performed so far, oldest first
    failedAt    \* the statement that threw, "none" while none has

sortVars == <<timeline, css, calls, prev, rendered, present, checked, levels, thrown>>

scriptVars == <<script, files, pc, idx, hasErrors, hasWarnings, errorLogged,
                warnLogged, exitCode, page, allFound, hardFound, finding>>

visualVars == <<test, siteBuilt, step, doc, loaded, shot, trace, failedAt>>

----------------------------------------------------------------------------
(* Bounds *)

MaxItems == 3       \* most li children of #timeline
MaxCalls == 3       \* most sort invocations in one run
MaxElements == 2    \* most elements of one kind in a tested document
MaxTokens == 3      \* most selector and handler calls in a page's script
MaxBraces == 1      \* most braces or parentheses of one kind in a script block

----------------------------------------------------------------------------
(* JavaScript values *)

Undefined == [t |-> "undefined", s |-> <<>>, n |-> 0]
NaN == [t |-> "nan", s |-> <<>>, n |-> 0]
Str(codes) == [t |-> "string", s |-> codes, n |-> 0]
Num(k) == [t |-> "number", s |-> <<>>, n |-> k]

\* a < b on strings: comparison by code unit, a proper prefix is smaller
RECURSIVE StrLess(_, _)
StrLess(a, b) ==
    IF b = <<>> THEN FALSE
    ELSE IF a = <<>> THEN TRUE
    ELSE IF Head(a) # Head(b) THEN Head(a) < Head(b)
    ELSE StrLess(Tail(a), Tail(b))

\* a < b as JavaScript evaluates it on the values the comparator meets:
\* two strings compare by code unit, two numbers numerically, and a
\* comparison with undefined or NaN on either side is false
JsLess(a, b) ==
    IF a.t = "string" /\ b.t = "string" THEN StrLess(a.s, b.s)
    ELSE IF a.t = "number" /\ b.t = "number" THEN a.n < b.n
    ELSE FALSE

JsGreater(a, b) == JsLess(b, a)

IsDigit(c) == c >= 48 /\ c <= 57
IsSpace(c) == c = 32 \/ c = 9 \/ c = 10 \/ c = 13

RECURSIVE SkipSpace(_)
SkipSpace(s) ==
    IF s # <<>> /\ IsSpace(Head(s)) THEN SkipSpace(Tail(s)) ELSE s

RECURSIVE Digits(_, _)
Digits(s, acc) ==
    IF s # <<>> /\ IsDigit(Head(s))
    THEN Digits(Tail(s), 10 * acc + (Head(s) - 48))
    ELSE acc

\* parseInt(text): leading white space is skipped, an optional sign is read,
\* then the longest run of decimal digits; no digit at all yields NaN
ParseInt(text) ==
    LET s0 == SkipSpace(text)
        neg == s0 # <<>> /\ Head(s0) = 45
        s1 == IF s0 # <<>> /\ (Head(s0) = 45 \/ Head(s0) = 43) THEN Tail(s0) ELSE s0
    IN  IF s1 = <<>> \/ ~IsDigit(Head(s1)) THEN NaN
        ELSE IF neg THEN Num(0 - Digits(s1, 0)) ELSE Num(Digits(s1, 0))

----------------------------------------------------------------------------
(* The timeline's items, taken from the page's markup *)

Work(k, d, w, c, dk) == [n |-> k, date |-> d, wc |-> w, color |-> c, dark |-> dk]

Works ==
    { Work(1, Str(<<50,48,50,48,45,48,57,45,49,48>>), <<49,50,48,48>>,
           Undefined, FALSE),
      Work(2, Str(<<50,48,50,48,45,48,56,45,48,54>>), <<49,55,48>>,
           Str(<<57,49,48,99,111,108,111,114,52,54,48,55,48,50>>), FALSE),
      Work(3, Str(<<50,48,50,48,45,48,56,45,48,54>>), <<49,57,48>>,
           Str(<<57,49,48,99,111,108,111,114,52,54,48,55,48,50>>), FALSE),
      Work(4, Str(<<50,48,50,48,45,48,51,45,49,56>>), <<49,57,48>>,
           Str(<<57,49,48,99,111,108,111,114,52,54,48,55,48,50>>), FALSE),
      Work(5, Str(<<50,48,49,57,45,48,57,45,49,50>>), <<57,48>>,
           Str(<<54,51,48,99,111,108,111,114,68,57,49,48,48,54>>), FALSE),
      Work(6, Str(<<50,48,49,57,45,48,49,45,48,49>>), <<51,48,48>>,
           Str(<<53,51,53,99,111,108,111,114,68,67,69,49,57,57>>), TRUE),
      Work(7, Str(<<50,48,49,56,45,48,54,45,49,57>>), <<51,50,48,48>>,
           Str(<<52,48,53,99,111,108,111,114,56,52,56,52,102,102>>), TRUE),
      Work(8, Str(<<50,48,49,56,45,48,51>>), <<49,48,48>>,
           Str(<<53,55,48,99,111,108,111,114,70,69,67,67,57,57>>), TRUE) }

WorkIds == { w.n : w \in Works }

\* every sequence of distinct works of at most MaxItems items
RECURSIVE SeqsOver(_, _)
SeqsOver(S, k) ==
    IF k = 0 THEN { <<>> }
    ELSE LET shorter == SeqsOver(S, k - 1)
         IN  shorter \cup
             { Append(s, w) : s \in { t \in shorter : Len(t) = k - 1 },
                              w \in S }

Distinct(s) == \A i, j \in 1..Len(s) : i # j => s[i].n # s[j].n

Timelines == { s \in SeqsOver(Works, MaxItems) : Distinct(s) }

----------------------------------------------------------------------------
(* sortUsingNestedText *)

\* $(keySelector, a).attr('id')
Attr(a, keySelector) ==
    CASE keySelector = "span.date" -> a.date
      [] keySelector = "span.color" -> a.color
      [] OTHER -> Undefined

\* $(keySelector, a).text()
Text(a, keySelector) ==
    CASE keySelector = "span.wc" -> a.wc
      [] OTHER -> <<>>

\* Key without the parseInt: the word counts compared as text
KeyAsText(a, keySelector, isdate) ==
    IF isdate THEN Attr(a, keySelector) ELSE Str(Text(a, keySelector))

Key(a, keySelector, isdate) ==
    IF isdate THEN Attr(a, keySelector) ELSE ParseInt(Text(a, keySelector))

\* the comparator with its two results exchanged: ascending order
CompareAscending(a, b, keySelector, isdate) ==
    LET vA == Key(a, keySelector, isdate)
        vB == Key(b, keySelector, isdate)
    IN  IF JsGreater(vA, vB) THEN 1 ELSE IF JsLess(vA, vB) THEN -1 ELSE 0

\* the comparator without its tie case: (vA > vB) ? -1 : 1
CompareNoTie(a, b, keySelector, isdate) ==
    LET vA == Key(a, keySelector, isdate)
        vB == Key(b, keySelector, isdate)
    IN  IF JsGreater(vA, vB) THEN -1 ELSE 1

\* the comparator handed to .sort
Compare(a, b, keySelector, isdate) ==
    LET vA == Key(a, keySelector, isdate)
        vB == Key(b, keySelector, isdate)
    IN  IF JsGreater(vA, vB) THEN -1 ELSE IF JsLess(vA, vB) THEN 1 ELSE 0

\* linear insertion from the right: x goes after the last element that the
\* comparator does not place behind it
RECURSIVE InsertPos(_, _, _, _, _)
InsertPos(s, x, j, keySelector, isdate) ==
    IF j > 0 /\ Compare(s[j], x, keySelector, isdate) > 0
    THEN InsertPos(s, x, j - 1, keySelector, isdate)
    ELSE j

RECURSIVE InsertionSort(_, _, _)
InsertionSort(s, keySelector, isdate) ==
    IF s = <<>> THEN <<>>
    ELSE LET sorted == InsertionSort(SubSeq(s, 1, Len(s) - 1), keySelector, isdate)
             x == s[Len(s)]
             j == InsertPos(sorted, x, Len(sorted), keySelector, isdate)
         IN  SubSeq(sorted, 1, j) \o <<x>> \o SubSeq(sorted, j + 1, Len(sorted))

\* merge of two sorted runs: the left element goes first unless the
\* comparator places it behind the right one
RECURSIVE Merge(_, _, _, _)
Merge(l, r, keySelector, isdate) ==
    IF l = <<>> THEN r
    ELSE IF r = <<>> THEN l
    ELSE IF Compare(Head(l), Head(r), keySelector, isdate) > 0
         THEN <<Head(r)>> \o Merge(l, Tail(r), keySelector, isdate)
         ELSE <<Head(l)>> \o Merge(Tail(l), r, keySelector, isdate)

RECURSIVE MergeSort(_, _, _)
MergeSort(s, keySelector, isdate) ==
    IF Len(s) <= 1 THEN s
    ELSE LET mid == Len(s) \div 2
         IN  Merge(MergeSort(SubSeq(s, 1, mid), keySelector, isdate),
                   MergeSort(SubSeq(s, mid + 1, Len(s)), keySelector, isdate),
                   keySelector, isdate)

\* Array.prototype.sort, which jQuery's .sort is: a stable sort; where the
\* comparator is not a consistent ordering the result is the engine's, an
\* insertion sort (short arrays) or a merge sort
SortOutcomes(s, keySelector, isdate) ==
    { InsertionSort(s, keySelector, isdate), MergeSort(s, keySelector, isdate) }

Range(s) == { s[i] : i \in 1..Len(s) }

\* parent.children("li")
Children(parent, childSelector) ==
    IF childSelector = "li" THEN parent ELSE <<>>

\* an append that copies the items instead of moving them
AppendItemsCopying(parent, items) == parent \o items

\* parent.append(items): each item is moved to the end of parent, in order
AppendItems(parent, items) ==
    SelectSeq(parent, LAMBDA c : c \notin Range(items)) \o items

\* the child sequences sortUsingNestedText can leave in parent
SortUsingNestedText(parent, childSelector, keySelector, isdate) ==
    { AppendItems(parent, items) :
        items \in SortOutcomes(Children(parent, childSelector), keySelector, isdate) }

\* $('#timeline'): the matched set, empty when no element has that id
Timeline == IF present THEN <<timeline>> ELSE <<>>

\* items.length read as if it could not be 0
ThrowsOnNoItems(parent, childSelector) ==
    \E i \in 1..Len(parent) : Children(parent[i], childSelector) = <<>>

\* whether lines 22 to 34 throw: .children, .sort and .append run over the
\* matched set and do nothing on an empty one, and "hi" + items is a string
\* concatenation
Throws(parent, childSelector) == FALSE

\* sortUsingNestedText(parent, ...) for a matched set: the child sequences it
\* can leave in the page's list
SortMatched(parent, childSelector, keySelector, isdate) ==
    IF parent = <<>> \/ Throws(parent, childSelector)
    THEN { timeline }
    ELSE SortUsingNestedText(parent[1], childSelector, keySelector, isdate)

----------------------------------------------------------------------------
(* Inline styles *)

White == <<35,102,102,102>>                      \* "#fff"
Black == <<35,48,48,48>>                         \* "#000"
Hash == <<35>>                                   \* "#"
Underline == <<117,110,100,101,114,108,105,110,101,32>>   \* "underline "
ColorSep == <<99,111,108,111,114>>               \* "color"
UndefinedText == <<117,110,100,101,102,105,110,101,100>>  \* "undefined"

IsPrefix(p, s) == Len(p) <= Len(s) /\ SubSeq(s, 1, Len(p)) = p

\* the text before the first occurrence of sep in s (all of s when none)
RECURSIVE Before(_, _)
Before(s, sep) ==
    IF s = <<>> \/ IsPrefix(sep, s) THEN <<>>
    ELSE <<Head(s)>> \o Before(Tail(s), sep)

\* s.split(sep)[1]: the second piece, undefined when sep does not occur
SplitSecond(s, sep) ==
    LET first == Before(s, sep)
    IN  IF Len(first) = Len(s) THEN Undefined
        ELSE Str(Before(SubSeq(s, Len(first) + Len(sep) + 1, Len(s)), sep))

\* "#" + bgcolor
Concat(prefix, v) ==
    prefix \o (IF v.t = "string" THEN v.s ELSE UndefinedText)

IsHexDigit(c) == IsDigit(c) \/ (c >= 65 /\ c <= 70) \/ (c >= 97 /\ c <= 102)

\* a CSS hex colour: "#" and 3, 4, 6 or 8 hexadecimal digits
IsHexColor(v) ==
    /\ Len(v) \in {4, 5, 7, 9}
    /\ v[1] = 35
    /\ \A i \in 2..Len(v) : IsHexDigit(v[i])

\* element.style[prop] = value: a value that is no colour is dropped
SetColor(old, value) == IF IsHexColor(value) THEN value ELSE old

\* this.id of a span.color: the empty string without an id attribute
IdOf(a) == IF a.color.t = "string" THEN a.color.s ELSE <<>>

NoStyle ==
    [iconBg |-> <<>>, iconColor |-> <<>>, contentBg |-> <<>>,
     contentColor |-> <<>>, anchor |-> <<>>, decoration |-> <<>>]

NoVisibility == [date |-> "", wc |-> "", color |-> "", icon |-> ""]

InDocument(children) == { children[i].n : i \in 1..Len(children) }

\* $('.content').css("background-color", "#fff"); $('.content').css("color",
\* "#000"); $("a").removeAttr('style')
ResetContent(st, children) ==
    [k \in WorkIds |->
        IF k \in InDocument(children)
        THEN [st[k] EXCEPT !.contentBg = White, !.contentColor = Black,
                           !.anchor = <<>>]
        ELSE st[k]]

\* the body of $('.color').each in sortcolor, for the span.color of item a
ColorEach(s, a) ==
    LET bgcolor == SplitSecond(IdOf(a), ColorSep)
        bg == Concat(Hash, bgcolor)
        fg == IF a.dark THEN Black ELSE White
    IN  [s EXCEPT !.decoration = IF IsHexColor(bg) THEN Underline \o bg ELSE @,
                  !.iconBg = SetColor(@, bg),
                  !.contentBg = SetColor(@, bg),
                  !.iconColor = fg,
                  !.contentColor = fg,
                  !.anchor = fg]

ColorAll(st, children) ==
    [k \in WorkIds |->
        IF k \in InDocument(children)
        THEN ColorEach(st[k], CHOOSE a \in Range(children) : a.n = k)
        ELSE st[k]]

----------------------------------------------------------------------------
(* The page's sort functions *)

\* what every sort function does besides the .css calls: the re-sort of
\* #timeline's children and the console.log of line 33
Resort(name, keySelector, isdate) ==
    /\ Len(calls) < MaxCalls
    /\ timeline' \in SortMatched(Timeline, "li", keySelector, isdate)
    /\ thrown' = (thrown \/ Throws(Timeline, "li"))
    /\ levels' = IF Throws(Timeline, "li") THEN levels ELSE levels \cup {"log"}
    /\ calls' = Append(calls, name)
    /\ prev' = timeline
    /\ UNCHANGED <<rendered, present, scriptVars, visualVars>>

\* sortwc without its first .css call: the .date labels stay as they were
sortwcKeepingDate ==
    /\ Resort("sortwc", "span.wc", FALSE)
    /\ css' = IF Throws(Timeline, "li") THEN css
              ELSE [vis |-> [css.vis EXCEPT !.wc = "visible", !.color = "hidden"],
                    item |-> ResetContent(css.item, timeline')]
    /\ checked' = "verbosity"

\* a click on label[for=verbosity]: its onclick runs sortwc(), then the
\* label activates #verbosity
sortwc ==
    /\ Resort("sortwc", "span.wc", FALSE)
    /\ css' = IF Throws(Timeline, "li") THEN css
              ELSE [vis |-> [css.vis EXCEPT !.date = "hidden", !.wc = "visible",
                                            !.color = "hidden"],
                    item |-> ResetContent(css.item, timeline')]
    /\ checked' = "verbosity"

\* a click on label[for=recency]: its onclick runs sortdate(), then the
\* label activates #recency
sortdate ==
    /\ Resort("sortdate", "span.date", TRUE)
    /\ css' = IF Throws(Timeline, "li") THEN css
              ELSE [vis |-> [css.vis EXCEPT !.wc = "hidden", !.date = "visible",
                                            !.color = "hidden"],
                    item |-> ResetContent(css.item, timeline')]
    /\ checked' = "recency"

\* sortcolor(): no control of the page invokes it, its radio input and label
\* are commented out
sortcolor ==
    /\ Resort("sortcolor", "span.color", TRUE)
    /\ css' = IF Throws(Timeline, "li") THEN css
              ELSE [vis |-> [css.vis EXCEPT !.date = "hidden", !.wc = "hidden",
                                            !.color = "visible", !.icon = "visible"],
                    item |-> ColorAll(css.item, timeline')]
    /\ UNCHANGED checked

\* the radio inputs of the group named sort
Radios == {"recency", "verbosity"}

\* a click on a radio input checks it; the inputs carry no handler
clickRadio ==
    /\ \E r \in Radios : checked' = r
    /\ checked' # checked
    /\ UNCHANGED <<timeline, css, calls, prev, rendered, present, levels, thrown,
                   scriptVars, visualVars>>

\* the page as rendered: #recency carries the checked attribute
InitSort ==
    /\ timeline \in Timelines
    /\ css = [vis |-> NoVisibility, item |-> [k \in WorkIds |-> NoStyle]]
    /\ calls = <<>>
    /\ prev = timeline
    /\ rendered = timeline
    /\ present \in BOOLEAN
    /\ checked = "recency"
    /\ levels = {}
    /\ thrown = FALSE

NextSort == sortwc \/ sortdate \/ sortcolor \/ clickRadio

----------------------------------------------------------------------------
(* The verification scripts: what they share *)

\* every sequence over S of at most k elements
RECURSIVE UpTo(_, _)
UpTo(S, k) ==
    IF k = 0 THEN { <<>> }
    ELSE LET shorter == UpTo(S, k - 1)
         IN  shorter \cup
             { Append(q, x) : q \in { t \in shorter : Len(t) = k - 1 }, x \in S }

\* a check that assigns its result to the flags instead of raising them
ReportOverwriting(setError, setWarning, logError, logWarning) ==
    /\ hasErrors' = setError
    /\ hasWarnings' = setWarning
    /\ errorLogged' = (errorLogged \/ logError)
    /\ warnLogged' = (warnLogged \/ logWarning)
    /\ hardFound' = (hardFound \/ setError)

\* what one check does to the script's flags and to the console:
\* hasErrors = true, hasWarnings = true, console.error, console.warn
Report(setError, setWarning, logError, logWarning) ==
    /\ hasErrors' = (hasErrors \/ setError)
    /\ hasWarnings' = (hasWarnings \/ setWarning)
    /\ errorLogged' = (errorLogged \/ logError)
    /\ warnLogged' = (warnLogged \/ logWarning)
    /\ hardFound' = (hardFound \/ setError)

\* a check whose finding no property looks at
NoFinding == [check |-> "none"]

Continue(label, i) == pc' = label /\ idx' = i

\* the alt attribute of an img: none, "", white space only, or a text
AltValues == {"absent", "empty", "blank", "text"}

----------------------------------------------------------------------------
(* The SEO script *)

SeoRequired == <<"robots.txt", "manifest.json">>
SeoHead == "_includes/head.html"
SeoPages == <<"_pages/books.html", "_pages/about.md">>
SeoFiles == Range(SeoRequired) \cup {SeoHead} \cup Range(SeoPages)

\* testFileExists, called for robots.txt and then for manifest.json
testFileExists ==
    /\ script = "seo" /\ pc = "testFileExists"
    /\ IF SeoRequired[idx] \in files
       THEN Report(FALSE, FALSE, FALSE, FALSE)
       ELSE Report(TRUE, FALSE, TRUE, FALSE)
    /\ IF idx < Len(SeoRequired)
       THEN Continue("testFileExists", idx + 1)
       ELSE Continue("seoOpen", 1)
    /\ UNCHANGED <<sortVars, visualVars, script, files, exitCode, page, allFound>>
    /\ finding' = NoFinding

\* testHTMLForSEO(head.html, ..., false) up to the JSDOM document: a missing
\* file returns early, a document that JSDOM rejects lands in the catch
seoOpen ==
    /\ script = "seo" /\ pc = "seoOpen"
    /\ IF SeoHead \notin files
       THEN Report(TRUE, FALSE, TRUE, FALSE) /\ Continue("seoPage", 1)
       ELSE \E throws \in BOOLEAN :
               IF throws
               THEN Report(TRUE, FALSE, TRUE, FALSE) /\ Continue("seoPage", 1)
               ELSE Report(FALSE, FALSE, FALSE, FALSE) /\ Continue("seoMeta", 1)
    /\ UNCHANGED <<sortVars, visualVars, script, files, exitCode, page, allFound>>
    /\ finding' = NoFinding

MetaTags ==
    {"viewport", "og:title", "og:description", "og:url", "og:image",
     "twitter:card", "twitter:title", "twitter:description", "canonical",
     "theme-color"}

\* Tests 1 to 6 with the warnings raised as failures
seoMetaFailing ==
    /\ script = "seo" /\ pc = "seoMeta"
    /\ \E description \in {"absent", "empty", "text"}, tags \in SUBSET MetaTags :
          LET hard == \/ "viewport" \notin tags
                      \/ ~({"og:title", "og:description", "og:url"} \subseteq tags)
                      \/ ~({"twitter:card", "twitter:title", "twitter:description"}
                              \subseteq tags)
                      \/ "canonical" \notin tags
              soft == \/ description # "text"
                      \/ "og:image" \notin tags
                      \/ "theme-color" \notin tags
          IN  Report(hard \/ soft, soft, hard, soft)
    /\ Continue("seoLinks", 1)
    /\ UNCHANGED <<sortVars, visualVars, script, files, exitCode, page, allFound>>
    /\ finding' = NoFinding

\* Tests 1 to 6: the meta tags and the canonical link
seoMeta ==
    /\ script = "seo" /\ pc = "seoMeta"
    /\ \E description \in {"absent", "empty", "text"}, tags \in SUBSET MetaTags :
          LET hard == \/ "viewport" \notin tags
                      \/ ~({"og:title", "og:description", "og:url"} \subseteq tags)
                      \/ ~({"twitter:card", "twitter:title", "twitter:description"}
                              \subseteq tags)
                      \/ "canonical" \notin tags
              soft == \/ description # "text"
                      \/ "og:image" \notin tags
                      \/ "theme-color" \notin tags
          IN  Report(hard, soft, hard, soft)
    /\ Continue("seoLinks", 1)
    /\ UNCHANGED <<sortVars, visualVars, script, files, exitCode, page, allFound>>
    /\ finding' = NoFinding

LinkTags == {"manifest", "icon", "apple-touch-icon"}

\* Tests 7 to 11: the title, the link tags and the JSON-LD block
seoLinks ==
    /\ script = "seo" /\ pc = "seoLinks"
    /\ \E title \in {"absent", "blank", "text"}, links \in SUBSET LinkTags,
          jsonld \in {"absent", "valid", "invalid"} :
          LET hard == title # "text" \/ jsonld = "invalid"
              soft == links # LinkTags \/ jsonld = "absent"
          IN  Report(hard, soft, hard, soft)
    /\ Continue("seoImages", 1)
    /\ UNCHANGED <<sortVars, visualVars, script, files, exitCode, page, allFound>>
    /\ finding' = NoFinding

\* !alt || alt.trim() === ''
SeoAltMissing(alt) == alt \in {"absent", "empty", "blank"}

\* Test 12: the img elements of the document
seoImages ==
    /\ script = "seo" /\ pc = "seoImages"
    /\ \E images \in UpTo(AltValues, MaxElements) :
          LET missingAltCount == Cardinality({ i \in 1..Len(images) : SeoAltMissing(images[i]) })
              failed == ~(missingAltCount = 0 /\ Len(images) > 0) /\ Len(images) # 0
          IN  Report(failed, FALSE, missingAltCount > 0 \/ failed, FALSE)
    /\ Continue("seoLang", 1)
    /\ UNCHANGED <<sortVars, visualVars, script, files, exitCode, page, allFound>>
    /\ finding' = NoFinding

\* html && html.getAttribute('lang'): JSDOM gives every document an html
\* element, which has a lang attribute only if the file's own <html> tag
\* carries one
HasLang(ownHtml, lang) == ownHtml /\ lang

\* the isCompleteDoc argument of the one testHTMLForSEO call
IsCompleteDoc == FALSE

\* Test 13: the lang attribute, looked at for complete documents only
seoLang ==
    /\ script = "seo" /\ pc = "seoLang"
    /\ \E ownHtml \in BOOLEAN, lang \in BOOLEAN :
          LET missing == IsCompleteDoc /\ ~HasLang(ownHtml, lang)
          IN  /\ Report(missing, FALSE, missing, FALSE)
              /\ finding' = [check |-> "lang", ownHtml |-> ownHtml, failed |-> missing]
    /\ Continue("seoPage", 1)
    /\ UNCHANGED <<sortVars, visualVars, script, files, exitCode, page, allFound>>

\* one round of pagesToTest.forEach: each img tag without "alt=" is logged
\* with console.error, and hasErrors is left alone
seoPage ==
    /\ script = "seo" /\ pc = "seoPage"
    /\ IF SeoPages[idx] \in files
       THEN \E imgTags \in UpTo(BOOLEAN, MaxElements) :
               LET missingAlt == Cardinality({ i \in 1..Len(imgTags) : ~imgTags[i] })
               IN  Report(FALSE, FALSE, missingAlt > 0, FALSE)
       ELSE Report(FALSE, FALSE, FALSE, FALSE)
    /\ IF idx < Len(SeoPages)
       THEN Continue("seoPage", idx + 1)
       ELSE Continue("testManifest", 1)
    /\ UNCHANGED <<sortVars, visualVars, script, files, exitCode, page, allFound>>
    /\ finding' = NoFinding

ManifestRequired == {"name", "short_name", "start_url", "display"}
ManifestRecommended == {"icons", "theme_color"}

testManifest ==
    /\ script = "seo" /\ pc = "testManifest"
    /\ IF "manifest.json" \notin files
       THEN Report(TRUE, FALSE, TRUE, FALSE)
       ELSE \E throws \in BOOLEAN,
               fields \in SUBSET (ManifestRequired \cup ManifestRecommended) :
               IF throws
               THEN Report(TRUE, FALSE, TRUE, FALSE)
               ELSE LET hard == ~(ManifestRequired \subseteq fields)
                        soft == ~(ManifestRecommended \subseteq fields)
                    IN  Report(hard, soft, hard, soft)
    /\ Continue("testRobotsTxt", 1)
    /\ UNCHANGED <<sortVars, visualVars, script, files, exitCode, page, allFound>>
    /\ finding' = NoFinding

testRobotsTxt ==
    /\ script = "seo" /\ pc = "testRobotsTxt"
    /\ IF "robots.txt" \notin files
       THEN Report(TRUE, FALSE, TRUE, FALSE)
       ELSE \E sitemap \in BOOLEAN, userAgent \in BOOLEAN :
               Report(~sitemap, FALSE, ~sitemap, FALSE)
    /\ Continue("summary", 1)
    /\ UNCHANGED <<sortVars, visualVars, script, files, exitCode, page, allFound>>
    /\ finding' = NoFinding

\* the final summary: exit 1 with hasErrors, exit 0 otherwise
seoSummary ==
    /\ script = "seo" /\ pc = "summary"
    /\ exitCode' = IF hasErrors THEN 1 ELSE IF hasWarnings THEN 0 ELSE 0
    /\ pc' = "exited"
    /\ UNCHANGED <<sortVars, visualVars, script, files, idx, hasErrors, hasWarnings, errorLogged,
                   warnLogged, page, allFound, hardFound>>
    /\ finding' = NoFinding

----------------------------------------------------------------------------
(* The accessibility script *)

A11yLayouts ==
    <<"_layouts/default.html", "_includes/header.html", "_includes/footer.html">>
A11yPages == <<"_pages/books.html", "_pages/about.md">>
A11yTested == A11yLayouts \o A11yPages
A11yFiles == Range(A11yTested)

\* after the last test of a file: the next file, or the final summary
A11yNext ==
    IF idx < Len(A11yTested) THEN Continue("a11yOpen", idx + 1) ELSE Continue("summary", 1)

\* the run with the existsSync guard of the sample pages around every call
a11yOpenSkippingMissing ==
    /\ script = "accessibility" /\ pc = "a11yOpen"
    /\ IF A11yTested[idx] \notin files
       THEN Report(FALSE, FALSE, FALSE, FALSE) /\ A11yNext
       ELSE \E throws \in BOOLEAN :
               IF throws
               THEN Report(TRUE, FALSE, TRUE, FALSE) /\ A11yNext
               ELSE Report(FALSE, FALSE, FALSE, FALSE) /\ Continue("a11yLang", idx)
    /\ UNCHANGED <<sortVars, visualVars, script, files, exitCode, page, allFound>>
    /\ finding' = NoFinding

\* testHTMLForAccessibility up to the JSDOM document. The layout and the two
\* includes are always tested; a sample page is tested only if it exists
a11yOpen ==
    /\ script = "accessibility" /\ pc = "a11yOpen"
    /\ IF A11yTested[idx] \notin files
       THEN IF idx <= Len(A11yLayouts)
            THEN Report(TRUE, FALSE, TRUE, FALSE) /\ A11yNext
            ELSE Report(FALSE, FALSE, FALSE, FALSE) /\ A11yNext
       ELSE \E throws \in BOOLEAN :
               IF throws
               THEN Report(TRUE, FALSE, TRUE, FALSE) /\ A11yNext
               ELSE Report(FALSE, FALSE, FALSE, FALSE) /\ Continue("a11yLang", idx)
    /\ UNCHANGED <<sortVars, visualVars, script, files, exitCode, page, allFound>>
    /\ finding' = NoFinding

\* Test 1: html && html.getAttribute('lang')
a11yLang ==
    /\ script = "accessibility" /\ pc = "a11yLang"
    /\ \E ownHtml \in BOOLEAN, lang \in BOOLEAN :
          LET missing == ~HasLang(ownHtml, lang)
          IN  /\ Report(missing, FALSE, missing, FALSE)
              /\ finding' = [check |-> "lang", ownHtml |-> ownHtml, failed |-> missing]
    /\ Continue("a11yHeadings", idx)
    /\ UNCHANGED <<sortVars, visualVars, script, files, exitCode, page, allFound>>

HeadingLevels == 1..6

\* the headings.forEach of Test 2, from heading i on: whether a warning is
\* raised, with previousLevel the level of the heading before
RECURSIVE HeadingWarning(_, _, _)
HeadingWarning(headings, i, previousLevel) ==
    IF i > Len(headings) THEN FALSE
    ELSE \/ (i = 1 /\ headings[i] # 1)
         \/ (previousLevel > 0 /\ headings[i] > previousLevel + 1)
         \/ HeadingWarning(headings, i + 1, headings[i])

\* headingIssues after the headings.forEach of Test 2, from heading i on:
\* only a skipped level is counted
RECURSIVE HeadingIssues(_, _, _)
HeadingIssues(headings, i, previousLevel) ==
    IF i > Len(headings) THEN 0
    ELSE (IF previousLevel > 0 /\ headings[i] > previousLevel + 1 THEN 1 ELSE 0)
         + HeadingIssues(headings, i + 1, headings[i])

\* Test 2: the heading hierarchy
a11yHeadings ==
    /\ script = "accessibility" /\ pc = "a11yHeadings"
    /\ \E headings \in UpTo(HeadingLevels, MaxElements) :
          LET warned == HeadingWarning(headings, 1, 0)
              headingIssues == HeadingIssues(headings, 1, 0)
          IN  /\ Report(FALSE, warned, FALSE, warned)
              /\ finding' = [check |-> "headings", warned |-> warned,
                             correct |-> headingIssues = 0 /\ Len(headings) > 0,
                             failed |-> FALSE]
    /\ Continue("a11yImages", idx)
    /\ UNCHANGED <<sortVars, visualVars, script, files, exitCode, page, allFound>>

\* !alt: true without the attribute and for the empty string
A11yAltMissing(alt) == alt \in {"absent", "empty"}

\* the number of images of q whose alt is one of alts
CountAlt(q, alts) == Cardinality({ i \in 1..Len(q) : q[i] \in alts })

\* else if (alt.trim() === ''): reached only by a non-empty alt
A11yAltEmpty(alt) == ~A11yAltMissing(alt) /\ alt = "blank"

\* Test 3: the img elements
a11yImages ==
    /\ script = "accessibility" /\ pc = "a11yImages"
    /\ \E images \in UpTo(AltValues, MaxElements) :
          LET missingAltCount == Cardinality({ i \in 1..Len(images) : A11yAltMissing(images[i]) })
              emptyAltCount == Cardinality({ i \in 1..Len(images) : A11yAltEmpty(images[i]) })
              failed == ~(missingAltCount = 0 /\ Len(images) > 0) /\ Len(images) # 0
          IN  /\ Report(failed, FALSE, missingAltCount > 0 \/ failed, FALSE)
              /\ finding' = [check |-> "images",
                             absent |-> CountAlt(images, {"absent"}),
                             empty |-> CountAlt(images, {"empty"}),
                             missingAltCount |-> missingAltCount,
                             emptyAltCount |-> emptyAltCount, failed |-> failed]
    /\ Continue("a11yForms", idx)
    /\ UNCHANGED <<sortVars, visualVars, script, files, exitCode, page, allFound>>

\* a form control: whether its type is hidden, submit or button, whether a
\* label[for] names its id, whether it has aria-label or aria-labelledby
Controls == [skipped : BOOLEAN, label : BOOLEAN, aria : BOOLEAN]

Unlabeled(c) == ~c.skipped /\ ~c.label /\ ~c.aria

\* Test 4: the form controls
a11yForms ==
    /\ script = "accessibility" /\ pc = "a11yForms"
    /\ \E inputs \in UpTo(Controls, MaxElements) :
          LET unlabeledInputs == Cardinality({ i \in 1..Len(inputs) : Unlabeled(inputs[i]) })
              failed == ~(unlabeledInputs = 0 /\ Len(inputs) > 0) /\ Len(inputs) # 0
          IN  Report(failed, FALSE, unlabeledInputs > 0 \/ failed, FALSE)
    /\ Continue("a11yLinks", idx)
    /\ UNCHANGED <<sortVars, visualVars, script, files, exitCode, page, allFound>>
    /\ finding' = NoFinding

\* a link: its trimmed text is empty, one of the non-descriptive texts, or
\* something else; and whether it has an aria-label
Links == [text : {"empty", "nondescriptive", "descriptive"}, aria : BOOLEAN]

EmptyLink(l) == l.text = "empty" /\ ~l.aria
NonDescriptiveLink(l) == ~EmptyLink(l) /\ l.text = "nondescriptive" /\ ~l.aria

\* Test 5: the links
a11yLinks ==
    /\ script = "accessibility" /\ pc = "a11yLinks"
    /\ \E links \in UpTo(Links, MaxElements) :
          LET emptyLinks == Cardinality({ i \in 1..Len(links) : EmptyLink(links[i]) })
              nonDescriptiveLinks == Cardinality({ i \in 1..Len(links) : NonDescriptiveLink(links[i]) })
              fine == emptyLinks = 0 /\ nonDescriptiveLinks = 0 /\ Len(links) > 0
              summed == ~fine /\ Len(links) # 0
          IN  Report(summed /\ emptyLinks > 0,
                     summed /\ nonDescriptiveLinks > 0,
                     summed /\ emptyLinks > 0,
                     emptyLinks > 0 \/ nonDescriptiveLinks > 0)
    /\ Continue("a11yButtons", idx)
    /\ UNCHANGED <<sortVars, visualVars, script, files, exitCode, page, allFound>>
    /\ finding' = NoFinding

\* a button: whether it has text, whether it has an aria-label
Buttons == [text : BOOLEAN, aria : BOOLEAN]

Unnamed(b) == ~b.text /\ ~b.aria

\* Test 6: the buttons
a11yButtons ==
    /\ script = "accessibility" /\ pc = "a11yButtons"
    /\ \E buttons \in UpTo(Buttons, MaxElements) :
          LET unlabeledButtons == Cardinality({ i \in 1..Len(buttons) : Unnamed(buttons[i]) })
              failed == ~(unlabeledButtons = 0 /\ Len(buttons) > 0) /\ Len(buttons) # 0
          IN  Report(failed, FALSE, unlabeledButtons > 0 \/ failed, FALSE)
    /\ Continue("a11yLandmarks", idx)
    /\ UNCHANGED <<sortVars, visualVars, script, files, exitCode, page, allFound>>
    /\ finding' = NoFinding

Landmarks == {"nav", "main", "header", "footer"}

\* Test 7: the ARIA landmarks
a11yLandmarks ==
    /\ script = "accessibility" /\ pc = "a11yLandmarks"
    /\ \E found \in SUBSET Landmarks :
          Report(FALSE, found # Landmarks, FALSE, found # Landmarks)
    /\ A11yNext
    /\ UNCHANGED <<sortVars, visualVars, script, files, exitCode, page, allFound>>
    /\ finding' = NoFinding

\* the final summary: exit 1 with hasErrors, exit 0 otherwise
a11ySummary ==
    /\ script = "accessibility" /\ pc = "summary"
    /\ exitCode' = IF hasErrors THEN 1 ELSE IF hasWarnings THEN 0 ELSE 0
    /\ pc' = "exited"
    /\ UNCHANGED <<sortVars, visualVars, script, files, idx, hasErrors, hasWarnings, errorLogged,
                   warnLogged, page, allFound, hardFound>>
    /\ finding' = NoFinding

----------------------------------------------------------------------------
(* The generator functionality test *)

GenPages == <<"_pages/writingprompts.html", "_pages/wuxianame.html">>
GenFiles == Range(GenPages)

\* the expectations handed to the two testGeneratorPage calls
Expectations ==
    << [elements |-> {"generateBtn", "promptDisplay", "promptText", "copyBtn"},
        functions |-> {"generatePrompt", "copyPrompt", "getRandomElement", "shuffle"},
        buttons |-> {"generateBtn", "copyBtn"}],
       [elements |-> {"genname", "nameDisplay", "includeZi"},
        functions |-> {"generateName"},
        buttons |-> {"genname"}] >>

NoPage == [e \in {} |-> "absent"]

\* after the last test of a page: the next page, or the final summary
GenNext ==
    /\ page' = NoPage
    /\ IF idx < Len(GenPages) THEN Continue("genOpen", idx + 1) ELSE Continue("summary", 1)

\* testGeneratorPage up to the page's content: a missing file returns early.
\* The content writes each expected element's id as id="x", as id='x', or not
\* at all
genOpen ==
    /\ script = "generators" /\ pc = "genOpen"
    /\ IF GenPages[idx] \notin files
       THEN /\ Report(TRUE, FALSE, TRUE, FALSE)
            /\ allFound' = FALSE
            /\ GenNext
       ELSE /\ Report(FALSE, FALSE, FALSE, FALSE)
            /\ page' \in [Expectations[idx].elements -> {"absent", "double", "single"}]
            /\ Continue("genElements", idx)
            /\ UNCHANGED allFound
    /\ UNCHANGED <<sortVars, visualVars, script, files, exitCode>>
    /\ finding' = NoFinding

\* htmlContent.includes(`id="${elementId}"`)
HasElement(content, elementId) == content[elementId] = "double"

\* Test 1: the required DOM elements
genElements ==
    /\ script = "generators" /\ pc = "genElements"
    /\ LET missing == \E e \in Expectations[idx].elements : ~HasElement(page, e)
       IN  /\ Report(missing, FALSE, missing, FALSE)
           /\ allFound' = (allFound /\ \A e \in Expectations[idx].elements : page[e] = "double")
    /\ Continue("genFunctions", idx)
    /\ UNCHANGED <<sortVars, visualVars, script, files, exitCode, page>>
    /\ finding' = NoFinding

\* how a script may define a name: not at all, function f(, const f =,
\* let f =, var f =
Definitions == {"absent", "function", "const", "let", "var"}

\* function\s+f\s*\( | const\s+f\s*= | let\s+f\s*=
HasFunction(defs, funcName) == defs[funcName] \in {"function", "const", "let"}

\* Test 2: the required functions
genFunctions ==
    /\ script = "generators" /\ pc = "genFunctions"
    /\ \E defs \in [Expectations[idx].functions -> Definitions] :
          LET missing == \E f \in Expectations[idx].functions : ~HasFunction(defs, f)
          IN  /\ Report(missing, FALSE, missing, FALSE)
              /\ allFound' = (allFound /\ \A f \in Expectations[idx].functions :
                                              defs[f] \in {"function", "const", "let"})
    /\ Continue("genListeners", idx)
    /\ UNCHANGED <<sortVars, visualVars, script, files, exitCode, page>>
    /\ finding' = NoFinding

\* the page's script as the calls the three patterns look for, in source
\* order: getElementById('x'), ('#x'), addEventListener('click', .on('click',
\* .click(
Tokens(ids) ==
    [call : {"getElementById", "selector"}, id : ids]
        \cup [call : {"addEventListener", "on", "click"}, id : {""}]

\* s matches first.*second with the dot matching line breaks too
Follows(src, first, secondCall) ==
    \E i, j \in 1..Len(src) : i < j /\ src[i] = first /\ src[j].call = secondCall

\* the three patterns of Test 3 for button id
HasListener(src, id) ==
    \/ Follows(src, [call |-> "getElementById", id |-> id], "addEventListener")
    \/ Follows(src, [call |-> "selector", id |-> id], "on")
    \/ Follows(src, [call |-> "selector", id |-> id], "click")

\* the page's script names the element #id
Referenced(src, id) == \E i \in 1..Len(src) : src[i].id = id

\* the page's script attaches a click handler to #id: the handler call is
\* made on the result of the selector call for that id
Attached(src, id) ==
    \E i \in 1..(Len(src) - 1) :
        /\ src[i].id = id
        /\ \/ src[i].call = "getElementById" /\ src[i + 1].call = "addEventListener"
           \/ src[i].call = "selector" /\ src[i + 1].call \in {"on", "click"}

\* Test 3: the event listeners
genListeners ==
    /\ script = "generators" /\ pc = "genListeners"
    /\ \E src \in UpTo(Tokens(Expectations[idx].buttons \cup {"other"}), MaxTokens) :
          LET missing == \E b \in Expectations[idx].buttons : ~HasListener(src, b)
          IN  /\ Report(missing, FALSE, missing, FALSE)
              /\ allFound' = (allFound /\ \A b \in Expectations[idx].buttons :
                                              HasListener(src, b))
              /\ finding' =
                    [check |-> "listeners",
                     passed |-> { b \in Expectations[idx].buttons : HasListener(src, b) },
                     referenced |-> { b \in Expectations[idx].buttons : Referenced(src, b) },
                     attached |-> { b \in Expectations[idx].buttons : Attached(src, b) },
                     failed |-> missing]
    /\ Continue("genSyntax", idx)
    /\ UNCHANGED <<sortVars, visualVars, script, files, exitCode, page>>

\* the first <script> block: its counts of { } ( ) and whether it holds
\* "(function()" and "})();"
ScriptBlocks ==
    [openBraces : 0..MaxBraces, closeBraces : 0..MaxBraces,
     openParens : 0..MaxBraces, closeParens : 0..MaxBraces, iife : BOOLEAN]

\* Test 4 with the missing IIFE raised as a failure
genSyntaxRequiringIife ==
    /\ script = "generators" /\ pc = "genSyntax"
    /\ \E scriptMatch \in BOOLEAN, block \in ScriptBlocks :
          IF scriptMatch
          THEN LET braces == block.openBraces # block.closeBraces
                   parens == block.openParens # block.closeParens
               IN  /\ Report(braces \/ parens \/ ~block.iife, FALSE,
                             braces \/ parens, ~block.iife)
                   /\ allFound' = (allFound /\ block.openBraces = block.closeBraces
                                            /\ block.openParens = block.closeParens)
          ELSE /\ Report(TRUE, FALSE, TRUE, FALSE)
               /\ allFound' = FALSE
    /\ Continue("genClasses", idx)
    /\ UNCHANGED <<sortVars, visualVars, script, files, exitCode, page>>
    /\ finding' = NoFinding

\* Test 4: the script block
genSyntax ==
    /\ script = "generators" /\ pc = "genSyntax"
    /\ \E scriptMatch \in BOOLEAN, block \in ScriptBlocks :
          IF scriptMatch
          THEN LET braces == block.openBraces # block.closeBraces
                   parens == block.openParens # block.closeParens
               IN  /\ Report(braces \/ parens, FALSE, braces \/ parens, ~block.iife)
                   /\ allFound' = (allFound /\ block.openBraces = block.closeBraces
                                            /\ block.openParens = block.closeParens)
          ELSE /\ Report(TRUE, FALSE, TRUE, FALSE)
               /\ allFound' = FALSE
    /\ Continue("genClasses", idx)
    /\ UNCHANGED <<sortVars, visualVars, script, files, exitCode, page>>
    /\ finding' = NoFinding

\* id="x"[^>]*class="[^"]*btn\s+btn-: the button's tag writes its id in
\* double quotes and, after it, a class attribute with "btn btn-"
HasButtonClass(content, classes, id) == content[id] = "double" /\ classes[id]

\* Test 5: the Bootstrap classes of the buttons
genClasses ==
    /\ script = "generators" /\ pc = "genClasses"
    /\ \E classes \in [Expectations[idx].buttons -> BOOLEAN] :
          LET missing == \E b \in Expectations[idx].buttons :
                              ~HasButtonClass(page, classes, b)
          IN  /\ Report(missing, FALSE, missing, FALSE)
              /\ allFound' = (allFound /\ \A b \in Expectations[idx].buttons :
                                              page[b] = "double" /\ classes[b])
    /\ GenNext
    /\ UNCHANGED <<sortVars, visualVars, script, files, exitCode>>
    /\ finding' = NoFinding

\* the final summary: exit 1 with hasErrors, exit 0 otherwise
genSummary ==
    /\ script = "generators" /\ pc = "summary"
    /\ exitCode' = IF hasErrors THEN 1 ELSE 0
    /\ pc' = "exited"
    /\ UNCHANGED <<sortVars, visualVars, script, files, idx, hasErrors, hasWarnings, errorLogged,
                   warnLogged, page, allFound, hardFound>>
    /\ finding' = NoFinding

----------------------------------------------------------------------------
(* The HTML/JavaScript validation script *)

ValidatePage == "_pages/wuxianame.html"
ValidateFiles == {ValidatePage}

\* validateFile up to the JSDOM document: a missing file returns early; a
\* content with "function" and without "}" is recorded as an error
validateOpen ==
    /\ script = "validate" /\ pc = "validateOpen"
    /\ IF ValidatePage \notin files
       THEN Report(TRUE, FALSE, TRUE, FALSE) /\ Continue("summary", 1)
       ELSE \E hasFunction \in BOOLEAN, hasClosingBrace \in BOOLEAN :
               LET missing == hasFunction /\ ~hasClosingBrace
               IN  Report(missing, FALSE, missing, FALSE) /\ Continue("validateScripts", 1)
    /\ UNCHANGED <<sortVars, visualVars, script, files, exitCode, page, allFound>>
    /\ finding' = NoFinding

\* a script element: whether its trimmed text is empty, whether some line
\* opens more than one brace beyond those it closes, whether it holds three
\* quotes in a row
ScriptTags == [empty : BOOLEAN, braceMismatch : BOOLEAN, runaway : BOOLEAN]

\* new JSDOM(...), which may throw into the catch, and scripts.forEach
validateScripts ==
    /\ script = "validate" /\ pc = "validateScripts"
    /\ \E throws \in BOOLEAN, scripts \in UpTo(ScriptTags, MaxElements) :
          IF throws
          THEN Report(TRUE, FALSE, TRUE, FALSE) /\ Continue("summary", 1)
          ELSE LET mismatch == \E i \in 1..Len(scripts) :
                                  ~scripts[i].empty /\ scripts[i].braceMismatch
                   runaway == \E i \in 1..Len(scripts) :
                                  ~scripts[i].empty /\ scripts[i].runaway
               IN  Report(runaway, FALSE, runaway, mismatch)
                   /\ Continue("validateElements", 1)
    /\ UNCHANGED <<sortVars, visualVars, script, files, exitCode, page, allFound>>
    /\ finding' = NoFinding

ValidateRequired == {"nameDisplay", "genname", "includeZi"}

\* the three required elements, then the log of "passed basic validation"
\* that ends the try block
validateElements ==
    /\ script = "validate" /\ pc = "validateElements"
    /\ \E found \in SUBSET ValidateRequired :
          LET missing == found # ValidateRequired
          IN  /\ Report(missing, FALSE, missing, FALSE)
              /\ finding' = [check |-> "validated", found |-> found, passed |-> TRUE]
    /\ Continue("summary", 1)
    /\ UNCHANGED <<sortVars, visualVars, script, files, exitCode, page, allFound>>

\* the exit: 1 with hasErrors, 0 otherwise
validateSummary ==
    /\ script = "validate" /\ pc = "summary"
    /\ exitCode' = IF hasErrors THEN 1 ELSE 0
    /\ pc' = "exited"
    /\ UNCHANGED <<sortVars, visualVars, script, files, idx, hasErrors, hasWarnings, errorLogged,
                   warnLogged, page, allFound, hardFound>>
    /\ finding' = NoFinding

----------------------------------------------------------------------------
(* One run of one script *)

Scripts == {"seo", "accessibility", "generators", "validate"}

FilesOf(s) ==
    CASE s = "seo" -> SeoFiles
      [] s = "accessibility" -> A11yFiles
      [] s = "generators" -> GenFiles
      [] s = "validate" -> ValidateFiles

FirstStep(s) ==
    CASE s = "seo" -> "testFileExists"
      [] s = "accessibility" -> "a11yOpen"
      [] s = "generators" -> "genOpen"
      [] s = "validate" -> "validateOpen"

InitScripts ==
    /\ script \in Scripts
    /\ files \in SUBSET FilesOf(script)
    /\ pc = FirstStep(script)
    /\ idx = 1
    /\ hasErrors = FALSE
    /\ hasWarnings = FALSE
    /\ errorLogged = FALSE
    /\ warnLogged = FALSE
    /\ exitCode = -1
    /\ page = NoPage
    /\ allFound = TRUE
    /\ hardFound = FALSE
    /\ finding = NoFinding

\* no script runs: the state of the script variables in the other
\* specifications
IdleScripts ==
    /\ script = "none"
    /\ files = {}
    /\ pc = "none"
    /\ idx = 1
    /\ hasErrors = FALSE
    /\ hasWarnings = FALSE
    /\ errorLogged = FALSE
    /\ warnLogged = FALSE
    /\ exitCode = -1
    /\ page = NoPage
    /\ allFound = TRUE
    /\ hardFound = FALSE
    /\ finding = NoFinding

NextScripts ==
    \/ testFileExists \/ seoOpen \/ seoMeta \/ seoLinks \/ seoImages \/ seoLang
    \/ seoPage \/ testManifest \/ testRobotsTxt \/ seoSummary
    \/ a11yOpen \/ a11yLang \/ a11yHeadings \/ a11yImages \/ a11yForms
    \/ a11yLinks \/ a11yButtons \/ a11yLandmarks \/ a11ySummary
    \/ genOpen \/ genElements \/ genFunctions \/ genListeners \/ genSyntax
    \/ genClasses \/ genSummary
    \/ validateOpen \/ validateScripts \/ validateElements \/ validateSummary

----------------------------------------------------------------------------
(* The visual-regression tests *)

\* the pages array
pages ==
    << [path |-> "/", name |-> "home", dynamicSelector |-> ""],
       [path |-> "/wuxianame/", name |-> "wuxia-name-generator",
        dynamicSelector |-> "nameDisplay"],
       [path |-> "/writingprompt/", name |-> "writing-prompts",
        dynamicSelector |-> "promptDisplay"],
       [path |-> "/books/", name |-> "books", dynamicSelector |-> ""],
       [path |-> "/about/", name |-> "about", dynamicSelector |-> ""] >>

\* the projects of playwright.config.js with their device and browser
projects ==
    { [name |-> "chromium", device |-> "Desktop Chrome", browserName |-> "chromium"],
      [name |-> "firefox", device |-> "Desktop Firefox", browserName |-> "firefox"],
      [name |-> "webkit", device |-> "Desktop Safari", browserName |-> "webkit"],
      [name |-> "Mobile Chrome", device |-> "Pixel 5", browserName |-> "chromium"],
      [name |-> "Mobile Safari", device |-> "iPhone 12", browserName |-> "webkit"] }

Groups == {"Desktop", "Mobile"}

\* the ids an element of a served page may carry
ElementIds == {"nameDisplay", "promptDisplay", "main"}

Documents == UpTo(ElementIds, MaxElements)

NoDocument == <<>>

\* document.querySelector('#id'): the index of the first element with that
\* id, 0 for null
QuerySelector(d, id) ==
    IF \E i \in 1..Len(d) : d[i] = id
    THEN CHOOSE i \in 1..Len(d) : d[i] = id /\ \A j \in 1..(i - 1) : d[j] # id
    ELSE 0

\* element.remove()
Remove(d, i) == SubSeq(d, 1, i - 1) \o SubSeq(d, i + 1, Len(d))

\* the evaluated function without its if (element): remove is called on null
EvaluateUnguarded(d, selector) ==
    LET element == QuerySelector(d, selector)
    IN  IF element # 0
        THEN [doc |-> Remove(d, element), removed |-> TRUE, threw |-> FALSE]
        ELSE [doc |-> d, removed |-> FALSE, threw |-> TRUE]

\* the function handed to browserPage.evaluate: the document it leaves and
\* whether it threw
Evaluate(d, selector) ==
    LET element == QuerySelector(d, selector)
    IN  IF element # 0
        THEN [doc |-> Remove(d, element), removed |-> TRUE, threw |-> FALSE]
        ELSE [doc |-> d, removed |-> FALSE, threw |-> FALSE]

Fail(at) == failedAt' = at /\ step' = "done"

\* a beforeAll that goes on without the built site
beforeAllLenient ==
    /\ step = "beforeAll"
    /\ step' = "goto" /\ UNCHANGED failedAt
    /\ UNCHANGED <<sortVars, scriptVars, test, siteBuilt, doc, loaded, shot, trace>>

\* test.beforeAll of either group
beforeAll ==
    /\ step = "beforeAll"
    /\ IF siteBuilt
       THEN step' = "goto" /\ UNCHANGED failedAt
       ELSE Fail("beforeAll")
    /\ UNCHANGED <<sortVars, scriptVars, test, siteBuilt, doc, loaded, shot, trace>>

\* await browserPage.goto(page.path): the served page, or a navigation error
goto ==
    /\ step = "goto"
    /\ \/ /\ doc' \in Documents
          /\ trace' = Append(trace, "goto")
          /\ step' = "waitForLoadState"
          /\ UNCHANGED failedAt
       \/ /\ Fail("goto")
          /\ UNCHANGED <<doc, trace>>
    /\ UNCHANGED <<sortVars, scriptVars, test, siteBuilt, loaded, shot>>

\* await browserPage.waitForLoadState('networkidle'), or its timeout
waitForLoadState ==
    /\ step = "waitForLoadState"
    /\ \/ /\ loaded' = doc
          /\ trace' = Append(trace, "networkidle")
          /\ step' = "evaluate"
          /\ UNCHANGED failedAt
       \/ /\ Fail("waitForLoadState")
          /\ UNCHANGED <<loaded, trace>>
    /\ UNCHANGED <<sortVars, scriptVars, test, siteBuilt, doc, shot>>

\* if (page.dynamicSelector) await browserPage.evaluate(...)
evaluate ==
    /\ step = "evaluate"
    /\ LET selector == pages[test.page].dynamicSelector
           result == Evaluate(doc, selector)
       IN  IF selector = ""
           THEN step' = "screenshot" /\ UNCHANGED <<doc, trace, failedAt>>
           ELSE IF result.threw
           THEN Fail("evaluate") /\ UNCHANGED <<doc, trace>>
           ELSE /\ doc' = result.doc
                /\ trace' = IF result.removed
                            THEN trace \o <<"evaluate", "remove">>
                            ELSE Append(trace, "evaluate")
                /\ step' = "screenshot"
                /\ UNCHANGED failedAt
    /\ UNCHANGED <<sortVars, scriptVars, test, siteBuilt, loaded, shot>>

\* await browserPage.screenshot({ fullPage: true })
screenshot ==
    /\ step = "screenshot"
    /\ shot' = [taken |-> TRUE, doc |-> doc]
    /\ trace' = Append(trace, "screenshot")
    /\ step' = "expect"
    /\ UNCHANGED <<sortVars, scriptVars, test, siteBuilt, doc, loaded, failedAt>>

\* the name given to toMatchSnapshot
SnapshotName(t) ==
    [page |-> pages[t.page].name, mobile |-> t.group = "Mobile",
     browser |-> t.project.browserName]

\* expect(screenshot).toMatchSnapshot(name): the baseline matches or not
expectSnapshot ==
    /\ step = "expect"
    /\ trace' = Append(trace, "compare")
    /\ \/ step' = "done" /\ UNCHANGED failedAt
       \/ Fail("expect")
    /\ UNCHANGED <<sortVars, scriptVars, test, siteBuilt, doc, loaded, shot>>

NoShot == [taken |-> FALSE, doc |-> NoDocument]

InitVisual ==
    /\ test \in [group : Groups, page : 1..Len(pages), project : projects]
    /\ siteBuilt \in BOOLEAN
    /\ step = "beforeAll"
    /\ doc = NoDocument
    /\ loaded = NoDocument
    /\ shot = NoShot
    /\ trace = <<>>
    /\ failedAt = "none"

\* no test runs: the state of the test variables in the other specifications
IdleVisual ==
    /\ test = [group |-> "none", page |-> 1,
               project |-> [name |-> "none", device |-> "none", browserName |-> "none"]]
    /\ siteBuilt = FALSE
    /\ step = "none"
    /\ doc = NoDocument
    /\ loaded = NoDocument
    /\ shot = NoShot
    /\ trace = <<>>
    /\ failedAt = "none"

NextVisual ==
    beforeAll \/ goto \/ waitForLoadState \/ evaluate \/ screenshot \/ expectSnapshot

----------------------------------------------------------------------------
(* Specifications *)

vars == <<sortVars, scriptVars, visualVars>>

\* the page with no sort function invoked yet
IdleSort ==
    /\ timeline = <<>>
    /\ css = [vis |-> NoVisibility, item |-> [k \in WorkIds |-> NoStyle]]
    /\ calls = <<>>
    /\ prev = <<>>
    /\ rendered = <<>>
    /\ present = FALSE
    /\ checked = "none"
    /\ levels = {}
    /\ thrown = FALSE

\* the timeline page in a browser
Init == InitSort /\ IdleScripts /\ IdleVisual

Next == NextSort

Spec == Init /\ [][Next]_vars

\* one verification script in a node process
InitScriptRun == IdleSort /\ InitScripts /\ IdleVisual

SpecScripts == InitScriptRun /\ [][NextScripts]_vars

\* one visual-regression test in a Playwright worker
InitTest == IdleSort /\ IdleScripts /\ InitVisual

SpecVisual == InitTest /\ [][NextVisual]_vars

----------------------------------------------------------------------------
(* Properties of the timeline re-sort *)

LastCall == IF calls = <<>> THEN "none" ELSE calls[Len(calls)]

WordCounts(s) == [i \in 1..Len(s) |-> ParseInt(s[i].wc).n]

DateTokens(s) == [i \in 1..Len(s) |-> s[i].date.s]

PositionIn(s, k) == CHOOSE i \in 1..Len(s) : s[i].n = k

Count(s, w) == Cardinality({ i \in 1..Len(s) : s[i] = w })

\* C1: in a page with #timeline, after sortwc its li children are in
\* non-increasing order of parseInt of their span.wc text, and the counts
\* [170, 1200, 90] come out as [1200, 170, 90]
C1_WordCountDescending ==
    (present /\ LastCall = "sortwc") =>
        /\ \A i \in 1..(Len(timeline) - 1) :
              WordCounts(timeline)[i] >= WordCounts(timeline)[i + 1]
        /\ WordCounts(prev) = <<170, 1200, 90>>
              => WordCounts(timeline) = <<1200, 170, 90>>

C1_Witness ==
    /\ LastCall = "sortwc"
    /\ WordCounts(prev) = <<170, 1200, 90>>
    /\ WordCounts(timeline) = <<1200, 170, 90>>

\* C2: in a page with #timeline, after sortdate its li children are in
\* non-increasing code-unit order of the id of their span.date, tokens of
\* different lengths included, and the tokens [2019-01-01, 2020-09-10,
\* 2018-06-19] come out as [2020-09-10, 2019-01-01, 2018-06-19]
C2_DateDescending ==
    (present /\ LastCall = "sortdate") =>
        /\ \A i \in 1..(Len(timeline) - 1) :
              ~StrLess(DateTokens(timeline)[i], DateTokens(timeline)[i + 1])
        /\ DateTokens(prev) = << <<50,48,49,57,45,48,49,45,48,49>>,
                                 <<50,48,50,48,45,48,57,45,49,48>>,
                                 <<50,48,49,56,45,48,54,45,49,57>> >>
              => DateTokens(timeline) = << <<50,48,50,48,45,48,57,45,49,48>>,
                                           <<50,48,49,57,45,48,49,45,48,49>>,
                                           <<50,48,49,56,45,48,54,45,49,57>> >>

\* a run that moved the short token "2018-03" from the front to behind the
\* longer token "2018-06-19"
C2_Witness ==
    /\ LastCall = "sortdate"
    /\ Len(timeline) = 3
    /\ timeline # prev
    /\ DateTokens(timeline)[3] = <<50,48,49,56,45,48,51>>
    /\ DateTokens(prev)[1] = <<50,48,49,56,45,48,51>>
    /\ DateTokens(timeline)[2] = <<50,48,49,56,45,48,54,45,49,57>>

\* C3: whatever sequence of sortdate, sortwc and sortcolor was invoked, every
\* item is a child of #timeline exactly as many times as in the rendered page
C3_ItemsConserved ==
    /\ Len(timeline) = Len(rendered)
    /\ \A w \in Works : Count(timeline, w) = Count(rendered, w)

C3_Witness ==
    /\ Len(calls) = 3
    /\ calls[1] # calls[2] /\ calls[2] # calls[3] /\ calls[1] # calls[3]
    /\ Len(timeline) = 3
    /\ timeline # rendered

\* C4: sortdate twice in succession, or sortwc twice in succession, leaves
\* the order as it was after the first of the two
C4_Idempotent ==
    (/\ Len(calls) >= 2
     /\ calls[Len(calls)] = calls[Len(calls) - 1]
     /\ LastCall \in {"sortdate", "sortwc"})
        => timeline = prev

\* the second of two equal sorts ran on a list with a tie that the first
\* sort had to reorder around
C4_Witness ==
    /\ calls = <<"sortwc", "sortwc">>
    /\ timeline = prev
    /\ timeline # rendered
    /\ \E i, j \in 1..Len(timeline) :
          i # j /\ WordCounts(timeline)[i] = WordCounts(timeline)[j]

SortKey(a) ==
    IF LastCall = "sortwc" THEN ParseInt(a.wc) ELSE a.date

\* C5: after sortdate or sortwc, two items with the same key are in the
\* relative order they had before the call
C5_Stable ==
    LastCall \in {"sortdate", "sortwc"} =>
        \A i, j \in 1..Len(prev) :
            (i < j /\ SortKey(prev[i]) = SortKey(prev[j]))
                => PositionIn(timeline, prev[i].n) < PositionIn(timeline, prev[j].n)

\* two items tied on the key kept their order while the call moved another
\* item across them
C5_Witness ==
    /\ LastCall \in {"sortdate", "sortwc"}
    /\ timeline # prev
    /\ \E i, j \in 1..Len(prev) :
          /\ i < j
          /\ SortKey(prev[i]) = SortKey(prev[j])
          /\ PositionIn(timeline, prev[i].n) < PositionIn(timeline, prev[j].n)

OnlyDateAndWc == \A i \in 1..Len(calls) : calls[i] \in {"sortdate", "sortwc"}

\* C6: right after sortdate the .date labels are visible and the .wc and
\* .color labels hidden; right after sortwc the .wc labels are visible and
\* the .date and .color labels hidden; with only these two invoked the
\* .color labels are never made visible
C6_LabelVisibility ==
    /\ LastCall = "sortdate" =>
          css.vis.date = "visible" /\ css.vis.wc = "hidden" /\ css.vis.color = "hidden"
    /\ LastCall = "sortwc" =>
          css.vis.wc = "visible" /\ css.vis.date = "hidden" /\ css.vis.color = "hidden"
    /\ OnlyDateAndWc => css.vis.color # "visible"

C6_Witness ==
    /\ calls = <<"sortdate", "sortwc", "sortdate">>
    /\ css.vis.date = "visible"
    /\ css.vis.wc = "hidden"

\* C11: with #timeline in the page and no li child in it, sortdate and sortwc
\* throw nothing and leave #timeline without children
C11_EmptyIsNoOp ==
    (present /\ rendered = <<>> /\ OnlyDateAndWc /\ calls # <<>>)
        => (timeline = <<>> /\ prev = <<>> /\ ~thrown)

\* both functions ran on the empty list
C11_Witness ==
    /\ present
    /\ rendered = <<>>
    /\ calls = <<"sortdate", "sortwc">>
    /\ timeline = <<>>
    /\ ~thrown

\* C12: with no #timeline in the page, an invocation of sortdate or sortwc
\* throws nothing, leaves the list's order as it was and logs a warning
C12_MissingTargetWarns ==
    (~present /\ LastCall \in {"sortdate", "sortwc"})
        => (~thrown /\ timeline = prev /\ "warn" \in levels)

\* the items are in the order the page's markup lists them
InPageOrder(s) == \A i, j \in 1..Len(s) : i < j => s[i].n < s[j].n

\* C13: from the page as rendered, through clicks on the radio inputs and on
\* their labels, #recency checked means the list was last sorted by sortdate
\* (or is still as rendered) and #verbosity checked means it was last sorted
\* by sortwc
C13_RadioAgreesWithSort ==
    (InPageOrder(rendered) /\ OnlyDateAndWc) =>
        /\ checked = "recency" => LastCall \in {"none", "sortdate"}
        /\ checked = "verbosity" => LastCall = "sortwc"

\* C14: after any sequence of sortdate and sortwc that ends with sortdate,
\* the items are in the order of the page as rendered
C14_SortdateRestoresPageOrder ==
    (InPageOrder(rendered) /\ OnlyDateAndWc /\ LastCall = "sortdate")
        => timeline = rendered

\* no other item of s carries the date token of s[i]
LoneDate(s, i) == \A j \in 1..Len(s) : j # i => s[j].date # s[i].date

\* C14 as it holds: after any sequence of sortdate and sortwc that ends with
\* sortdate, the date tokens are in the order of the page as rendered and
\* every item that shares its date token with no other item is at its
\* rendered position; items sharing a date token may have changed places
\* among themselves
C14_SortdateRestoresDates ==
    (InPageOrder(rendered) /\ OnlyDateAndWc /\ LastCall = "sortdate") =>
        /\ DateTokens(timeline) = DateTokens(rendered)
        /\ \A i \in 1..Len(rendered) :
              LoneDate(rendered, i) => timeline[i] = rendered[i]

\* sortwc exchanged the two items of 2020-08-06 and sortdate left them
\* exchanged
C14_Witness ==
    /\ InPageOrder(rendered)
    /\ present
    /\ calls = <<"sortwc", "sortdate">>
    /\ Len(rendered) = 3
    /\ timeline # rendered
    /\ DateTokens(timeline) = DateTokens(rendered)

\* the key the last invoked sort function compared the item by
LastKey(a) ==
    CASE LastCall = "sortwc" -> Key(a, "span.wc", FALSE)
      [] LastCall = "sortdate" -> Key(a, "span.date", TRUE)
      [] LastCall = "sortcolor" -> Key(a, "span.color", TRUE)
      [] OTHER -> Undefined

Defined(v) == v.t \in {"string", "number"}

\* C24: after a sort function ran on #timeline, any two items whose keys are
\* both defined are in non-increasing key order, whatever keys the other
\* items have
C24_DefinedKeysOrdered ==
    (present /\ calls # <<>>) =>
        \A i, j \in 1..Len(timeline) :
            (i < j /\ Defined(LastKey(timeline[i])) /\ Defined(LastKey(timeline[j])))
                => ~JsLess(LastKey(timeline[i]), LastKey(timeline[j]))

\* C25: after sortcolor followed by sortdate or sortwc, every item's
\* .content is white with black text, its anchors have no inline style, and
\* its div.icon has no inline background-color and no inline text colour
C25_ColorStylingReverted ==
    (/\ Len(calls) >= 2
     /\ calls[Len(calls) - 1] = "sortcolor"
     /\ LastCall \in {"sortdate", "sortwc"}) =>
        \A k \in InDocument(timeline) :
            /\ css.item[k].contentBg = White
            /\ css.item[k].contentColor = Black
            /\ css.item[k].anchor = <<>>
            /\ css.item[k].iconBg = <<>>
            /\ css.item[k].iconColor = <<>>

----------------------------------------------------------------------------
(* Properties of the verification scripts *)

Exited == pc = "exited"

\* C7: in every script, a run in which some check logged at error level
\* ends with a non-zero exit code
C7_ErrorLevelFailsRun ==
    (Exited /\ errorLogged) => exitCode # 0

\* C8: in the accessibility and SEO scripts, a run whose checks logged
\* warnings and nothing at error level ends with exit code 0
C8_WarningsOnlyExitZero ==
    (/\ Exited
     /\ script \in {"accessibility", "seo"}
     /\ warnLogged \/ hasWarnings
     /\ ~errorLogged)
        => exitCode = 0

\* an SEO run that found only soft defects and passed
C8_Witness ==
    /\ Exited
    /\ script = "seo"
    /\ warnLogged /\ hasWarnings
    /\ ~errorLogged
    /\ exitCode = 0

\* C9: the generator test exits 0 exactly when both pages exist and every
\* expected element id, function definition, click listener, balanced
\* script block and Bootstrap button class was found, and exits 1
\* otherwise; a missing IIFE changes nothing
C9_ExitZeroIffAllFound ==
    (Exited /\ script = "generators") =>
        /\ exitCode \in {0, 1}
        /\ exitCode = 0 <=> allFound

\* both pages had everything but the IIFE, and the run passed
C9_Witness ==
    /\ Exited
    /\ script = "generators"
    /\ GenFiles \subseteq files
    /\ allFound
    /\ warnLogged
    /\ exitCode = 0

\* C15: in the accessibility script an image with alt="" is counted in
\* emptyAltCount and not in missingAltCount, and the image check sets
\* hasErrors exactly when some image has no alt attribute at all
C15_EmptyAltAccepted ==
    (script = "accessibility" /\ finding.check = "images") =>
        /\ finding.missingAltCount = finding.absent
        /\ finding.emptyAltCount >= finding.empty
        /\ finding.failed <=> finding.absent > 0

\* C16: in the generator test the listener check passes for a button id only
\* if the page attaches a click handler to the element with that id, and a
\* page that names the id and attaches its click handlers to other elements
\* fails the check, which sets hasErrors
C16_ListenerOnSameId ==
    (script = "generators" /\ finding.check = "listeners") =>
        /\ finding.passed \subseteq finding.attached
        /\ (finding.referenced \ finding.attached # {}) => (finding.failed /\ hasErrors)

\* C17: the validation script logs "passed basic validation" for the file
\* only if no error was recorded for it, and it exits 1 exactly when
\* hasErrors was set, brace-mismatch warnings changing nothing
C17_PassedOnlyWithoutErrors ==
    /\ (script = "validate" /\ finding.check = "validated" /\ finding.passed)
          => ~hasErrors
    /\ (script = "validate" /\ Exited) => (exitCode = IF hasErrors THEN 1 ELSE 0)

\* C18: in the SEO and the accessibility script, the lang check of a file
\* that carries no <html> element of its own does not set hasErrors
C18_LangOnlyForCompleteDocs ==
    (script \in {"seo", "accessibility"} /\ finding.check = "lang" /\ ~finding.ownHtml)
        => ~finding.failed

\* the run is about to skip a sample page that does not exist
SkipsPage ==
    \/ /\ script = "accessibility" /\ pc = "a11yOpen"
       /\ idx > Len(A11yLayouts) /\ A11yTested[idx] \notin files
    \/ /\ script = "seo" /\ pc = "seoPage" /\ SeoPages[idx] \notin files

\* the step leaves the flags and the console as they were
Quiet ==
    /\ hasErrors' = hasErrors /\ hasWarnings' = hasWarnings
    /\ errorLogged' = errorLogged /\ warnLogged' = warnLogged

\* C19: a missing layout or include file makes the accessibility script set
\* hasErrors and exit 1; a missing robots.txt, manifest.json or head.html
\* makes the SEO script exit 1; a missing generator page makes the generator
\* test exit 1; and in the accessibility and SEO scripts a missing sample
\* page is passed over with the flags and the console untouched
C19_MissingInputs ==
    /\ [](Exited =>
            /\ (script = "accessibility" /\ ~(Range(A11yLayouts) \subseteq files))
                  => (hasErrors /\ exitCode = 1)
            /\ (script = "seo" /\ ~(Range(SeoRequired) \cup {SeoHead} \subseteq files))
                  => exitCode = 1
            /\ (script = "generators" /\ ~(GenFiles \subseteq files))
                  => exitCode = 1)
    /\ [][SkipsPage => Quiet]_vars

\* the accessibility script ran without the footer include and without the
\* two sample pages, and failed
C19_Witness ==
    /\ Exited
    /\ script = "accessibility"
    /\ files = {"_layouts/default.html", "_includes/header.html"}
    /\ hasErrors
    /\ exitCode = 1

\* C20: hasErrors and hasWarnings, once true, stay true through every later
\* check and file, and the exit code is 1 exactly when some check of the run
\* found a hard failure, wherever in the run that was
C20_Latches ==
    /\ [][(hasErrors => hasErrors') /\ (hasWarnings => hasWarnings')]_vars
    /\ []((Exited /\ script \in {"accessibility", "seo"})
            => exitCode = IF hardFound THEN 1 ELSE 0)

\* a lang check passed while hasErrors and hasWarnings were already set by
\* an earlier file
C20_Witness ==
    /\ script = "accessibility"
    /\ idx > 1
    /\ finding.check = "lang" /\ ~finding.failed
    /\ hasErrors /\ hasWarnings

\* C23: the heading check logs "Heading hierarchy is correct" for a file
\* only if it raised no heading warning for that file, and it never sets
\* hasErrors
C23_CorrectOnlyWithoutWarning ==
    (script = "accessibility" /\ finding.check = "headings") =>
        /\ finding.correct => ~finding.warned
        /\ ~finding.failed

----------------------------------------------------------------------------
(* Properties of the visual-regression tests *)

RECURSIVE WithoutFirst(_, _)
WithoutFirst(d, id) ==
    IF d = <<>> THEN <<>>
    ELSE IF Head(d) = id THEN Tail(d)
    ELSE <<Head(d)>> \o WithoutFirst(Tail(d), id)

Precedes(tr, a, b) == \E i, j \in 1..Len(tr) : i < j /\ tr[i] = a /\ tr[j] = b

Occurs(tr, a) == \E i \in 1..Len(tr) : tr[i] = a

Selector == pages[test.page].dynamicSelector

\* C10: in a test of either group, for a page with a dynamicSelector the
\* first element matching it is removed after navigation and network idle
\* and before the screenshot, which shows the document without it; for a
\* page without a dynamicSelector the screenshot shows the document as
\* loaded; and a document without the element reaches the screenshot with
\* nothing thrown
C10_DynamicRemovedBeforeShot ==
    /\ failedAt # "evaluate"
    /\ Occurs(trace, "remove") =>
          /\ Selector # ""
          /\ Precedes(trace, "goto", "remove")
          /\ Precedes(trace, "networkidle", "remove")
          /\ ~Precedes(trace, "screenshot", "remove")
    /\ shot.taken =>
          /\ Selector # "" => shot.doc = WithoutFirst(loaded, Selector)
          /\ (Selector # "" /\ Occurs(loaded, Selector)) =>
                Precedes(trace, "remove", "screenshot")
          /\ Selector = "" => (shot.doc = loaded /\ ~Occurs(trace, "remove"))
    /\ (/\ Selector # ""
        /\ Occurs(trace, "networkidle")
        /\ ~Occurs(loaded, Selector)
        /\ step # "evaluate")
          => (Occurs(trace, "evaluate") /\ failedAt \in {"none", "expect"})

\* the wuxia page came with #nameDisplay behind another element, and the
\* screenshot was taken without it
C10_Witness ==
    /\ test.page = 2
    /\ loaded = <<"main", "nameDisplay">>
    /\ shot.taken
    /\ shot.doc = <<"main">>
    /\ trace = <<"goto", "networkidle", "evaluate", "remove", "screenshot">>

\* C21: a test whose group's beforeAll found no _site directory fails in
\* that hook: it navigates nowhere, takes no screenshot and compares nothing
C21_NoSiteNoNavigation ==
    (step # "none" /\ ~siteBuilt) =>
        /\ trace = <<>>
        /\ doc = NoDocument
        /\ ~shot.taken
        /\ step \in {"beforeAll", "done"}
        /\ step = "done" => failedAt = "beforeAll"

\* a mobile test of the books page failed in beforeAll
C21_Witness ==
    /\ ~siteBuilt
    /\ test.group = "Mobile" /\ test.page = 4
    /\ step = "done"
    /\ failedAt = "beforeAll"
    /\ trace = <<>>

MobileDevices == {"Pixel 5", "iPhone 12"}

DesktopDevices == {"Desktop Chrome", "Desktop Firefox", "Desktop Safari"}

\* C22: a screenshot compared under a name with "-mobile-" was taken under a
\* project of a mobile device, and one compared under a name without it
\* under a project of a desktop device
C22_GroupMatchesViewport ==
    Occurs(trace, "compare") =>
        /\ SnapshotName(test).mobile => test.project.device \in MobileDevices
        /\ ~SnapshotName(test).mobile => test.project.device \in DesktopDevices

====
